---- MODULE Spec2Model ----
(***************************************************************************)
(* A model of the AlChemy reaction engine of functional-supercollider:     *)
(* the Soup of src/src/soup.rs (population, reaction rules, filters and    *)
(* the atomic react() step), together with the lambda-term operations of   *)
(* the lambda_calculus crate that collide() calls (hybrid normal order     *)
(* reduction with a step limit, isomorphism, free variables, depth).       *)
(*                                                                         *)
(* Terms use De Bruijn indices starting at 1, as the crate does:           *)
(*   <<"V", n>>      Var(n)                                                *)
(*   <<"L", t>>      abs(t)                                                *)
(*   <<"A", t, u>>   app(t, u)                                             *)
(***************************************************************************)
EXTENDS Integers, Sequences, FiniteSets, TLC

\* ------------------------------------------------------------------ bounds

\* Largest population the model lets perturb build.
MaxPop == 3
\* Largest number of terms one perturb call supplies.
MaxBatch == 2
\* Number of perturb/react calls explored on one engine.
MaxCalls == 3
\* Number of calls explored on two engines side by side.
MaxTwinCalls == 2
\* Largest n handed to simulate_for.
MaxAttempts == 3
\* Largest n handed to simulate_and_poll and simulate_and_poll_with_killer.
MaxRunLength == 3
\* Largest polling interval.
MaxInterval == 2
\* Number of steps after which a reduction is looked at for a loop.
LoopSpan == 16

\* ------------------------------------------------------------------- terms

Var(n) == <<"V", n>>
abs(t) == <<"L", t>>
app(t, u) == <<"A", t, u>>

IsVar(t) == t[1] = "V"
IsAbs(t) == t[1] = "L"
IsApp(t) == t[1] = "A"

Max(a, b) == IF a >= b THEN a ELSE b

\* Term::max_depth
RECURSIVE max_depth(_)
max_depth(t) ==
    IF IsVar(t) THEN 0
    ELSE IF IsAbs(t) THEN 1 + max_depth(t[2])
    ELSE 1 + Max(max_depth(t[2]), max_depth(t[3]))

\* Term::has_free_variables, at a given binder depth
RECURSIVE has_free_variables_helper(_, _)
has_free_variables_helper(t, depth) ==
    IF IsVar(t) THEN t[2] > depth \/ t[2] = 0
    ELSE IF IsAbs(t) THEN has_free_variables_helper(t[2], depth + 1)
    ELSE has_free_variables_helper(t[2], depth) \/ has_free_variables_helper(t[3], depth)

has_free_variables(t) == has_free_variables_helper(t, 0)

\* Term::is_isomorphic_to: the same shape with the same indices
RECURSIVE is_isomorphic_to(_, _)
is_isomorphic_to(t, u) ==
    IF IsVar(t) /\ IsVar(u) THEN t[2] = u[2]
    ELSE IF IsAbs(t) /\ IsAbs(u) THEN is_isomorphic_to(t[2], u[2])
    ELSE IF IsApp(t) /\ IsApp(u)
         THEN is_isomorphic_to(t[2], u[2]) /\ is_isomorphic_to(t[3], u[3])
    ELSE FALSE

\* Raise the free variables of a substituted argument by the binders crossed.
RECURSIVE update_free_variables(_, _, _)
update_free_variables(t, added_depth, own_depth) ==
    IF IsVar(t) THEN (IF t[2] > own_depth THEN Var(t[2] + added_depth) ELSE t)
    ELSE IF IsAbs(t) THEN abs(update_free_variables(t[2], added_depth, own_depth + 1))
    ELSE app(update_free_variables(t[2], added_depth, own_depth),
             update_free_variables(t[3], added_depth, own_depth))

\* Substitute rhs for the variable bound `depth` binders up; lower the free ones.
RECURSIVE apply_at(_, _, _)
apply_at(t, rhs, depth) ==
    IF IsVar(t)
    THEN (IF t[2] = depth THEN update_free_variables(rhs, depth - 1, 0)
          ELSE IF t[2] > depth THEN Var(t[2] - 1)
          ELSE t)
    ELSE IF IsAbs(t) THEN abs(apply_at(t[2], rhs, depth + 1))
    ELSE app(apply_at(t[2], rhs, depth), apply_at(t[3], rhs, depth))

\* One beta step at the root of app(abs(body), rhs)
eval(t) == apply_at(t[2][2], t[3], 1)

is_reducible(t, limit, count) ==
    IsApp(t) /\ IsAbs(t[2]) /\ (limit = 0 \/ count < limit)

\* <<term, count>> with the term put back under its binder
under_abs(r) == <<abs(r[1]), r[2]>>

\* <<term, count>> of an application whose two sides were reduced in turn
joined(l, rr) == <<app(l[1], rr[1]), rr[2]>>

RECURSIVE beta_hsp(_, _, _)
RECURSIVE hsp_app(_, _, _)

\* Head spine reduction (HSP); returns <<term, count>>
beta_hsp(t, limit, count) ==
    IF limit # 0 /\ count = limit THEN <<t, count>>
    ELSE IF IsAbs(t) THEN under_abs(beta_hsp(t[2], limit, count))
    ELSE IF IsApp(t) THEN hsp_app(beta_hsp(t[2], limit, count), t[3], limit)
    ELSE <<t, count>>

\* The application case of HSP once the left side, r = <<lhs, count>>, is done
hsp_app(r, rhs, limit) ==
    IF is_reducible(app(r[1], rhs), limit, r[2])
    THEN beta_hsp(eval(app(r[1], rhs)), limit, r[2] + 1)
    ELSE <<app(r[1], rhs), r[2]>>

RECURSIVE beta_hno(_, _, _)
RECURSIVE hno_app(_, _, _)
RECURSIVE hno_rhs(_, _, _)

\* Hybrid normal order reduction (HNO); returns <<term, count>>
beta_hno(t, limit, count) ==
    IF limit # 0 /\ count = limit THEN <<t, count>>
    ELSE IF IsAbs(t) THEN under_abs(beta_hno(t[2], limit, count))
    ELSE IF IsApp(t) THEN hno_app(beta_hsp(t[2], limit, count), t[3], limit)
    ELSE <<t, count>>

\* The application case of HNO once the left side, r = <<lhs, count>>, is
\* head spine reduced
hno_app(r, rhs, limit) ==
    IF is_reducible(app(r[1], rhs), limit, r[2])
    THEN beta_hno(eval(app(r[1], rhs)), limit, r[2] + 1)
    ELSE hno_rhs(beta_hno(r[1], limit, r[2]), rhs, limit)

\* The right side is reduced after the left, with the count carried over
hno_rhs(l, rhs, limit) == joined(l, beta_hno(rhs, limit, l[2]))

\* The reduction of t has no end when it has made 2 * LoopSpan steps and
\* the term after them, b[1], is the term it had reached after LoopSpan
\* steps, a[1]: the strategy goes on from a term by the steps it made from
\* that term before, so the steps from LoopSpan to 2 * LoopSpan repeat for
\* ever.
loops(a, b) == a[2] = LoopSpan /\ b[2] = 2 * LoopSpan /\ b[1] = a[1]

\* What reduce returns for a reduction in such a loop: under a limit the
\* count is the limit and the term the one of the loop reached at that
\* count; without a limit the call never returns, which the count -1 stands
\* for.
looped(t, limit) ==
    IF limit = 0 THEN <<t, -1>>
    ELSE <<beta_hno(t, LoopSpan + ((limit - LoopSpan) % LoopSpan), 0)[1], limit>>

\* reduce(t, limit), b being the reduction of t under the limit 2 * LoopSpan
spanned_twice(t, a, b, limit) ==
    IF loops(a, b) THEN looped(t, limit) ELSE beta_hno(t, limit, 0)

\* reduce(t, limit), a being the reduction of t under the limit LoopSpan: a
\* reduction that ended within LoopSpan steps is the same under any limit
\* above LoopSpan and under none.
spanned(t, a, limit) ==
    IF a[2] < LoopSpan THEN a
    ELSE IF limit # 0 /\ limit <= 2 * LoopSpan THEN beta_hno(t, limit, 0)
    ELSE spanned_twice(t, a, beta_hno(t, 2 * LoopSpan, 0), limit)

\* expr.reduce(HNO, limit): the reduced term and the number of steps taken;
\* a limit of 0 is no limit. The result is that of beta_hno under the limit;
\* the reduction is looked at for a loop first, as a reduction in a loop
\* makes as many steps as the limit allows, and has no result without one.
reduce(t, limit) ==
    IF limit # 0 /\ limit <= LoopSpan THEN beta_hno(t, limit, 0)
    ELSE spanned(t, beta_hno(t, LoopSpan, 0), limit)

\* ------------------------------------------------------- terms of the runs

identity == abs(Var(1))
TermK == abs(abs(Var(2)))
TermW == abs(app(Var(1), Var(1)))
TermOpen == abs(Var(2))

\* Terms a caller hands to perturb.
Pool == {identity, TermK, TermW, TermOpen}

\* \n.\x.\y. x (n x y)
succ == abs(abs(abs(app(Var(2), app(app(Var(3), Var(2)), Var(1))))))
\* \m.\n. m (\n.\x.\y. x (n x y)) n
plus == abs(abs(app(app(Var(2), succ), Var(1))))
\* \x.\y.y
zero == abs(abs(Var(1)))
\* \m.\n. m ((\m.\n. m (\n.\x.\y. x (n x y)) n) n) (\x.\y.y), as parsed: the
\* term holds a redex.
add == abs(abs(app(app(Var(2), app(plus, Var(1))), zero)))

\* Terms the sample of an experiment is drawn from.
SamplePool == {identity, TermK, TermW, add}

\* "\\x.\\y.x y" parsed in Classic notation
RuleApply == abs(abs(app(Var(2), Var(1))))
\* "\\x.\\y.y x"
RuleFlip == abs(abs(app(Var(1), Var(2))))

\* Rule lists a configuration may carry (cfg.rules, parsed in order).
RuleSets == {<<>>, <<RuleApply>>, <<RuleApply, RuleFlip>>}

\* Values of cfg.reduction_cutoff.
ReductionLimits == {4, 5}

\* Values handed to set_limit: 0 is no limit.
Limits == {0, 4, 5, 7}

\* ------------------------------------------------------------------- state

VARIABLES
    expressions,                        \* Soup.expressions: Vec<Term>
    reaction_rules,                     \* Soup.reaction_rules: Vec<Term>
    reduction_limit,                    \* Soup.reduction_limit
    maintain_constant_population_size,  \* the five switches of the Soup
    discard_copy_actions,
    discard_identity,
    discard_free_variable_expressions,
    discard_parents,
    status,                             \* "running", "panicked" once a call has panicked,
                                        \* "hung" once a call never returns
    calls,                              \* number of perturb/react calls made so far
    last,                               \* record of the most recent call (observation only)
    inserted,                           \* every term handed to perturb so far (observation only)
    twin,                               \* a second engine with the same configuration
    sim,                                \* the simulate_* call in progress, if any
    task,                               \* the experiment task that built the engine, if any
    collisions                          \* LambdaSoup::collisions(): react attempts of the
                                        \* engine of an experiment since construction

cfgVars == <<reaction_rules, reduction_limit, maintain_constant_population_size,
             discard_copy_actions, discard_identity,
             discard_free_variable_expressions, discard_parents>>

\* The configuration but for the reduction limit.
ruleVars == <<reaction_rules, maintain_constant_population_size,
              discard_copy_actions, discard_identity,
              discard_free_variable_expressions, discard_parents>>

vars == <<expressions, cfgVars, status, calls, last, inserted, twin, sim, task,
          collisions>>

NoTerm == Var(0)

\* The record of a call before any call has been made.
NoCall ==
    [op |-> "init", result |-> "-", pre |-> <<>>, batch |-> <<>>,
     i |-> -1, j |-> -1, left |-> NoTerm, right |-> NoTerm,
     left_size |-> 0, right_size |-> 0,
     buf |-> <<>>, collision_results |-> <<>>, committed |-> <<>>, ks |-> <<>>]

\* The engine was built by its caller directly, not by an experiment task.
NoTask == [id |-> -1, seed |-> <<>>, engine_seed |-> <<>>]

\* No simulate_* call has been made.
Idle ==
    [op |-> "none", phase |-> "idle", n |-> 0, interval |-> 0, i |-> 0,
     start_len |-> 0, line |-> <<>>, samples |-> <<>>, history |-> <<>>]

\* ------------------------------------------------------------- Vec helpers

\* swap_remove with the slip of dropping the last element without moving it
\* into the place of the removed one.
swap_remove_truncates(s, i) == SubSeq(s, 1, Len(s) - 1)

\* Vec::swap_remove(i), i counted from 0: the last element takes the place of
\* the removed one.
swap_remove(s, i) ==
    IF i = Len(s) - 1 THEN SubSeq(s, 1, Len(s) - 1)
    ELSE SubSeq(s, 1, i) \o <<s[Len(s)]>> \o SubSeq(s, i + 2, Len(s) - 1)

\* rng.gen_range(0..n_expr)
FirstDrawRange(n_expr) == 0 .. (n_expr - 1)
\* rng.gen_range(0..n_expr - 1)
SecondDrawRange(n_expr) == 0 .. (n_expr - 2)

\* ----------------------------------------------------------------- collide

\* Option::None and Option::Some((expr, n))
None == [some |-> FALSE, hang |-> FALSE]
Some(expr, n) == [some |-> TRUE, hang |-> FALSE, expr |-> expr, n |-> n]
\* The call of reduce never returns.
Hang == [some |-> FALSE, hang |-> TRUE]

\* The checks of collide with the identity check left out.
filtered_keeps_identity(r, left, right) ==
    IF r[2] = reduction_limit THEN None
    ELSE IF (is_isomorphic_to(r[1], left) \/ is_isomorphic_to(r[1], right))
            /\ discard_copy_actions THEN None
    ELSE IF has_free_variables(r[1]) /\ discard_free_variable_expressions THEN None
    ELSE Some(r[1], r[2])

\* The checks of collide with the free variable check left out.
filtered_keeps_free(r, left, right) ==
    IF r[2] = reduction_limit THEN None
    ELSE IF is_isomorphic_to(r[1], identity) /\ discard_identity THEN None
    ELSE IF (is_isomorphic_to(r[1], left) \/ is_isomorphic_to(r[1], right))
            /\ discard_copy_actions THEN None
    ELSE Some(r[1], r[2])

\* The checks of collide with the result compared to the left parent only.
filtered_compares_left_only(r, left, right) ==
    IF r[2] = reduction_limit THEN None
    ELSE IF is_isomorphic_to(r[1], identity) /\ discard_identity THEN None
    ELSE IF is_isomorphic_to(r[1], left) /\ discard_copy_actions THEN None
    ELSE IF has_free_variables(r[1]) /\ discard_free_variable_expressions THEN None
    ELSE Some(r[1], r[2])

\* The checks of collide with the step count never compared to the limit.
filtered_ignores_limit(r, left, right) ==
    IF is_isomorphic_to(r[1], identity) /\ discard_identity THEN None
    ELSE IF (is_isomorphic_to(r[1], left) \/ is_isomorphic_to(r[1], right))
            /\ discard_copy_actions THEN None
    ELSE IF has_free_variables(r[1]) /\ discard_free_variable_expressions THEN None
    ELSE Some(r[1], r[2])

\* The checks collide makes on the reduced term r = <<expr, n>>
filtered(r, left, right) ==
    IF r[2] = reduction_limit THEN None
    ELSE IF is_isomorphic_to(r[1], identity) /\ discard_identity THEN None
    ELSE IF (is_isomorphic_to(r[1], left) \/ is_isomorphic_to(r[1], right))
            /\ discard_copy_actions THEN None
    ELSE IF has_free_variables(r[1]) /\ discard_free_variable_expressions THEN None
    ELSE Some(r[1], r[2])

\* collide once reduce has given r, if it ever does.
collided(r, left, right) ==
    IF r[2] < 0 THEN Hang ELSE filtered(r, left, right)

\* Soup::collide
collide(rule, left, right) ==
    collided(reduce(app(app(rule, left), right), reduction_limit), left, right)

\* CollisionResult { size, reductions }
CollisionResult(value, n) == [reductions |-> n, size |-> max_depth(value)]

\* The loop over the rules in react, from rule k on: stops at the first rule
\* whose collision gives None.
RECURSIVE collide_rules(_, _, _, _, _)
collide_rules(k, left, right, buf, collision_results) ==
    IF k > Len(reaction_rules)
    THEN [ok |-> TRUE, hang |-> FALSE, buf |-> buf,
          collision_results |-> collision_results]
    ELSE LET result == collide(reaction_rules[k], left, right)
         IN  IF result.some
             THEN collide_rules(k + 1, left, right,
                                Append(buf, result.expr),
                                Append(collision_results, CollisionResult(result.expr, result.n)))
             ELSE [ok |-> FALSE, hang |-> result.hang, buf |-> buf,
                   collision_results |-> collision_results]

\* A react that returns None but has already put the outputs of the earlier
\* rules into the population.
AbortedPopulationKeepsBuf(removed, buf) == removed \o buf

\* The population a react that returns None leaves: the buffer is dropped.
AbortedPopulation(removed, buf) == removed

\* The commit with the parents never put back.
CommitDropsParents(removed, buf, left, right) == removed \o buf

\* self.expressions.append(&mut buf), then the parents if they are kept.
Commit(removed, buf, left, right) ==
    IF ~discard_parents THEN removed \o buf \o <<left, right>>
    ELSE removed \o buf

\* A removal loop that runs once whatever the number of rules.
RemovalCountOne ==
    IF maintain_constant_population_size THEN 1 ELSE 0

\* Number of members removed after the commit.
RemovalCount ==
    IF maintain_constant_population_size THEN Len(reaction_rules) ELSE 0

\* The draws k of the removal loop: the m-th draw is from a population one
\* shorter than the draw before.
RemovalDraws(len, count) ==
    {ks \in [1 .. count -> 0 .. (len - 1)] :
        \A m \in 1 .. count : ks[m] <= len - m}

RECURSIVE remove_each(_, _, _)
remove_each(s, ks, m) ==
    IF m > Len(ks) THEN s ELSE remove_each(swap_remove(s, ks[m]), ks, m + 1)

\* ------------------------------------------------------------------- react

\* What one call leaves behind: the population, whether the engine still
\* runs, and the record of the call.
Outcome(pop, st, rec) == [expressions |-> pop, status |-> st, last |-> rec]

\* Soup::react on an empty population: the first gen_range(0..0) panics.
EmptyOutcomes(pop) ==
    {Outcome(pop, "panicked",
             [NoCall EXCEPT !.op = "react", !.result = "panic", !.pre = pop])}

\* Soup::react on a population of one: the first draw and swap_remove run,
\* the second gen_range(0..0) panics.
SingleOutcomes(pop) ==
    {Outcome(swap_remove(pop, i), "panicked",
             [NoCall EXCEPT !.op = "react", !.result = "panic", !.pre = pop,
                            !.i = i, !.left = pop[i + 1],
                            !.left_size = max_depth(pop[i + 1])]) :
        i \in FirstDrawRange(Len(pop))}

\* Soup::react on a population of two or more, for the draws i and j. A
\* collision whose reduction never ends leaves the call inside the loop over
\* the rules for ever, the parents removed and nothing appended.
PairOutcomesAt(pop, i, j) ==
    LET left == pop[i + 1]
        after_left == swap_remove(pop, i)
        right == after_left[j + 1]
        removed == swap_remove(after_left, j)
        run == collide_rules(1, left, right, <<>>, <<>>)
        seen == [NoCall EXCEPT !.op = "react", !.pre = pop,
                               !.i = i, !.j = j, !.left = left, !.right = right,
                               !.left_size = max_depth(left),
                               !.right_size = max_depth(right)]
    IN  IF run.hang
        THEN {Outcome(removed, "hung", [seen EXCEPT !.result = "hang"])}
        ELSE IF ~run.ok
        THEN {Outcome(AbortedPopulation(removed, run.buf), "running",
                      [seen EXCEPT !.result = "none"])}
        ELSE LET committed == Commit(removed, run.buf, left, right)
             IN  {Outcome(remove_each(committed, ks, 1), "running",
                          [seen EXCEPT !.result = "some",
                                       !.buf = run.buf,
                                       !.collision_results = run.collision_results,
                                       !.committed = committed,
                                       !.ks = ks]) :
                     ks \in RemovalDraws(Len(committed), RemovalCount)}

PairOutcomes(pop) ==
    UNION {PairOutcomesAt(pop, i, j) :
              i \in FirstDrawRange(Len(pop)), j \in SecondDrawRange(Len(pop))}

\* Soup::react: every outcome the random draws allow.
ReactOutcomes(pop) ==
    IF Len(pop) = 0 THEN EmptyOutcomes(pop)
    ELSE IF Len(pop) = 1 THEN SingleOutcomes(pop)
    ELSE PairOutcomes(pop)

\* ----------------------------------------------------------------- actions

Configured ==
    /\ reaction_rules \in RuleSets
    /\ reduction_limit \in ReductionLimits
    /\ maintain_constant_population_size \in BOOLEAN
    /\ discard_copy_actions \in BOOLEAN
    /\ discard_identity \in BOOLEAN
    /\ discard_free_variable_expressions \in BOOLEAN
    /\ discard_parents \in BOOLEAN

\* Soup::new
NewSoup ==
    /\ reaction_rules = <<RuleFlip>>
    /\ reduction_limit = 100000
    /\ maintain_constant_population_size = TRUE
    /\ discard_copy_actions = TRUE
    /\ discard_identity = TRUE
    /\ discard_free_variable_expressions = TRUE
    /\ discard_parents = FALSE

\* Soup::from_config or Soup::new
Init ==
    /\ Configured \/ NewSoup
    /\ expressions = <<>>
    /\ status = "running"
    /\ calls = 0
    /\ last = NoCall
    /\ inserted = {}
    /\ twin = Outcome(<<>>, "running", NoCall)
    /\ sim = Idle
    /\ task = NoTask
    /\ collisions = 0

Batches == UNION {[1 .. len -> Pool] : len \in 1 .. MaxBatch}

\* An insertion that leaves out the terms the population already holds.
PerturbOutcomeDedups(pop, batch) ==
    Outcome(pop \o SelectSeq(batch, LAMBDA t : \A p \in 1 .. Len(pop) : pop[p] # t),
            "running",
            [NoCall EXCEPT !.op = "perturb", !.pre = pop, !.batch = batch])

\* What perturb(batch) leaves behind.
PerturbOutcome(pop, batch) ==
    Outcome(pop \o batch, "running",
            [NoCall EXCEPT !.op = "perturb", !.pre = pop, !.batch = batch])

Take(o) ==
    /\ expressions' = o.expressions
    /\ status' = o.status
    /\ last' = o.last

\* Soup::perturb
Perturb ==
    /\ status = "running"
    /\ calls < MaxCalls
    /\ \E batch \in Batches :
        /\ Len(expressions) + Len(batch) <= MaxPop
        /\ Take(PerturbOutcome(expressions, batch))
        /\ inserted' = inserted \cup {batch[k] : k \in 1 .. Len(batch)}
    /\ calls' = calls + 1
    /\ UNCHANGED <<cfgVars, task, collisions, twin, sim>>

ReactEmpty ==
    /\ status = "running"
    /\ calls < MaxCalls
    /\ Len(expressions) = 0
    /\ \E o \in EmptyOutcomes(expressions) : Take(o)
    /\ calls' = calls + 1
    /\ UNCHANGED <<cfgVars, task, collisions, inserted, twin, sim>>

ReactSingle ==
    /\ status = "running"
    /\ calls < MaxCalls
    /\ Len(expressions) = 1
    /\ \E o \in SingleOutcomes(expressions) : Take(o)
    /\ calls' = calls + 1
    /\ UNCHANGED <<cfgVars, task, collisions, inserted, twin, sim>>

ReactPair ==
    /\ status = "running"
    /\ calls < MaxCalls
    /\ Len(expressions) >= 2
    /\ \E o \in PairOutcomes(expressions) : Take(o)
    /\ calls' = calls + 1
    /\ UNCHANGED <<cfgVars, task, collisions, inserted, twin, sim>>

\* Soup::react
React == ReactEmpty \/ ReactSingle \/ ReactPair

\* The record of a set_limit call.
LimitSet == [NoCall EXCEPT !.op = "set_limit"]

\* Soup::set_limit
SetLimit ==
    /\ status = "running"
    /\ calls < MaxCalls
    /\ sim.phase = "idle"
    /\ \E limit \in Limits : reduction_limit' = limit
    /\ last' = LimitSet
    /\ calls' = calls + 1
    /\ UNCHANGED <<expressions, ruleVars, status, inserted, twin, sim, task, collisions>>

Next == Perturb \/ React \/ SetLimit

Spec == Init /\ [][Next]_vars

\* ------------------------------------------------- two engines side by side

\* A second engine built from the same configuration receives the same calls
\* as the first. Each react draws from thread_rng(), the generator of the
\* calling thread, seeded by the operating system: the draws of the two
\* engines are independent of each other.
PerturbBoth ==
    /\ status = "running" /\ twin.status = "running"
    /\ calls < MaxTwinCalls
    /\ \E batch \in Batches :
        /\ Len(expressions) + Len(batch) <= MaxPop
        /\ Len(twin.expressions) + Len(batch) <= MaxPop
        /\ Take(PerturbOutcome(expressions, batch))
        /\ twin' = PerturbOutcome(twin.expressions, batch)
        /\ inserted' = inserted \cup {batch[k] : k \in 1 .. Len(batch)}
    /\ calls' = calls + 1
    /\ UNCHANGED <<cfgVars, task, collisions, sim>>

ReactBoth ==
    /\ status = "running" /\ twin.status = "running"
    /\ calls < MaxTwinCalls
    /\ \E o \in ReactOutcomes(expressions) : Take(o)
    /\ twin' \in ReactOutcomes(twin.expressions)
    /\ calls' = calls + 1
    /\ UNCHANGED <<cfgVars, task, collisions, inserted, sim>>

\* set_limit on both engines, with the same limit.
SetLimitBoth ==
    /\ status = "running" /\ twin.status = "running"
    /\ calls < MaxTwinCalls
    /\ \E limit \in Limits : reduction_limit' = limit
    /\ last' = LimitSet
    /\ twin' = [twin EXCEPT !.last = LimitSet]
    /\ calls' = calls + 1
    /\ UNCHANGED <<expressions, ruleVars, status, inserted, sim, task, collisions>>

NextTwin == PerturbBoth \/ ReactBoth \/ SetLimitBoth

SpecTwin == Init /\ [][NextTwin]_vars

\* --------------------------------------------------------------- analysis
\* Length of the population (the engine's len accessor).
len(pop) == Len(pop)

\* An entry update that never increments an existing count.
or_insert_only(map, expr) ==
    IF expr \in DOMAIN map THEN map ELSE map @@ (expr :> 1)

\* map.entry(expr).and_modify(|e| *e += 1).or_insert(1)
and_modify_or_insert(map, expr) ==
    IF expr \in DOMAIN map
    THEN [map EXCEPT ![expr] = @ + 1]
    ELSE map @@ (expr :> 1)

RECURSIVE counts_from(_, _, _)
\* The loop of expression_counts from member k on, map being the map so far.
counts_from(pop, k, map) ==
    IF k > Len(pop) THEN map
    ELSE counts_from(pop, k + 1, and_modify_or_insert(map, pop[k]))

\* expression_counts: the map from each distinct member to its count.
expression_counts(pop) == counts_from(pop, 1, <<>>)

\* unique_expressions: the set of the members.
unique_expressions(pop) == {pop[k] : k \in 1 .. Len(pop)}

\* 10^6 * log10(m) for m = 1 .. 16, rounded.
Log10Micro ==
    <<0, 301030, 477121, 602060, 698970, 778151, 845098, 903090,
      954243, 1000000, 1041393, 1079181, 1113943, 1146128, 1176091, 1204120>>

\* 10^6 * log10(num / den), for num and den in 1 .. 16.
log10(num, den) == Log10Micro[num] - Log10Micro[den]

\* One iteration that takes every key as one occurrence (pi = 1 / n).
entropy_step_ignores_count(acc, value, n) ==
    [entropy  |-> acc.entropy - (1 * log10(1, n)) \div n,
     divisors |-> Append(acc.divisors, n)]

\* One iteration of the loop of population_entropy: pi = value / n, then
\* entropy -= pi * log10(pi).  Entropies are in units of 10^-6; divisors
\* lists the right operand of every division performed.
entropy_step(acc, value, n) ==
    [entropy  |-> acc.entropy - (value * log10(value, n)) \div n,
     divisors |-> Append(acc.divisors, n)]

RECURSIVE entropy_over(_, _, _, _)
\* The loop of population_entropy over the keys still to visit.
entropy_over(keys, counts, n, acc) ==
    IF keys = {} THEN acc
    ELSE LET key == CHOOSE k \in keys : TRUE
         IN  entropy_over(keys \ {key}, counts, n, entropy_step(acc, counts[key], n))

\* The loop of population_entropy on a map of counts and a length.
entropy_of(counts, n) ==
    entropy_over(DOMAIN counts, counts, n, [entropy |-> 0, divisors |-> <<>>])

\* population_entropy, with the divisions it performed.
entropy_run(pop) == entropy_of(expression_counts(pop), len(pop))

\* population_entropy: the value returned.
population_entropy(pop) == entropy_run(pop).entropy

\* ------------------------------------------------------------ simulate_for

\* The engine is filled by one perturb before a simulate_* call is made on
\* it, as the experiments do.
Populate ==
    /\ sim.phase = "idle"
    /\ inserted = {}
    /\ Perturb

\* A loop that stops one iteration early.
in_range_short(i, n) == i + 1 < n

\* for i in 0..n: the loop runs while i < n.
in_range(i, n) == i < n

\* The evaluation of the arguments of println! panicked.
IndexOutOfBounds == [panic |-> TRUE]

\* format!("successful with {} reductions between expressions of sizes {}
\* and {}, and produces an expression of size {}", a, b, c, d): the four
\* arguments fill the four slots in the order they are given.
format(a, b, c, d) ==
    [panic |-> FALSE, text |-> "successful",
     reductions |-> a, sizes |-> <<b, c>>, size |-> d]

\* The text of the line println! writes for the result of one react:
\* rec.result is "some" for Some(result), "none" for None.
reaction_line(rec) ==
    IF rec.result = "some"
    THEN IF Len(rec.collision_results) = 0
         THEN IndexOutOfBounds
         ELSE format(rec.left_size, rec.right_size,
                     rec.collision_results[1].reductions,
                     rec.collision_results[1].size)
    ELSE [panic |-> FALSE, text |-> "failed"]

\* What one iteration of the loop of simulate_for leaves behind, o being
\* the outcome of its react: a panic in react or in the arguments of
\* println! ends the call, and a react that never returns leaves the call
\* inside this iteration.
IterationOf(o) ==
    IF o.status # "running"
    THEN [expressions |-> o.expressions, status |-> o.status, last |-> o.last,
          sim |-> [sim EXCEPT !.i = @ + 1, !.phase = o.status]]
    ELSE IF reaction_line(o.last).panic
    THEN [expressions |-> o.expressions, status |-> "panicked", last |-> o.last,
          sim |-> [sim EXCEPT !.i = @ + 1, !.phase = "panicked"]]
    ELSE [expressions |-> o.expressions, status |-> "running", last |-> o.last,
          sim |-> [sim EXCEPT !.i = @ + 1, !.line = reaction_line(o.last)]]

TakeIteration(it) ==
    /\ expressions' = it.expressions
    /\ status' = it.status
    /\ last' = it.last
    /\ sim' = it.sim

\* Soup::simulate_for is called with n.
SimulateForCall ==
    /\ status = "running"
    /\ sim.phase = "idle"
    /\ \E n \in 0 .. MaxAttempts :
           sim' = [Idle EXCEPT !.op = "simulate_for", !.phase = "loop",
                               !.n = n, !.start_len = Len(expressions)]
    /\ UNCHANGED <<expressions, cfgVars, task, collisions, status, calls, last, inserted, twin>>

\* One iteration of the loop: react, then println!.
SimulateForIteration ==
    /\ sim.op = "simulate_for"
    /\ sim.phase = "loop"
    /\ in_range(sim.i, sim.n)
    /\ \E o \in ReactOutcomes(expressions) : TakeIteration(IterationOf(o))
    /\ UNCHANGED <<cfgVars, task, collisions, calls, inserted, twin>>

\* The loop has ended: simulate_for returns.
SimulateForReturn ==
    /\ sim.op = "simulate_for"
    /\ sim.phase = "loop"
    /\ ~in_range(sim.i, sim.n)
    /\ sim' = [sim EXCEPT !.phase = "returned"]
    /\ UNCHANGED <<expressions, cfgVars, task, collisions, status, calls, last, inserted, twin>>

NextSim ==
    \/ Populate \/ SetLimit
    \/ SimulateForCall \/ SimulateForIteration \/ SimulateForReturn

SpecSim == Init /\ [][NextSim]_vars

\* ------------------------------------------------------- simulate_and_poll

\* The engine the experiments run: experiment_soup, with the reduction
\* cutoff drawn from the limits of the model.
\* Length of the seed of a configuration: [u8; 32].
SeedBytes == 32
\* Number of bytes of a usize.
UsizeBytes == 8

\* [0; 32]
ZeroSeed == [k \in 1 .. SeedBytes |-> 0]

\* The configuration experiment_soup hands to from_config.
Reactor(seed) ==
    [rules |-> <<RuleApply>>,
     discard_copy_actions |-> FALSE,
     discard_identity |-> FALSE,
     discard_free_variable_expressions |-> TRUE,
     maintain_constant_population_size |-> TRUE,
     discard_parents |-> FALSE,
     reduction_cutoff |-> 8000,
     size_cutoff |-> 1000,
     seed |-> seed]

\* from_config: the engine takes the rules, the reduction cutoff and the five
\* switches of the configuration; no field of the engine holds its size
\* cutoff.
from_config(cfg) ==
    /\ reaction_rules = cfg.rules
    /\ reduction_limit = cfg.reduction_cutoff
    /\ maintain_constant_population_size = cfg.maintain_constant_population_size
    /\ discard_copy_actions = cfg.discard_copy_actions
    /\ discard_parents = cfg.discard_parents
    /\ discard_identity = cfg.discard_identity
    /\ discard_free_variable_expressions = cfg.discard_free_variable_expressions

experiment_soup(seed) == from_config(Reactor(seed))

\* The samples handed to add_lambda_expressions.
Samples == UNION {[1 .. n -> SamplePool] : n \in 1 .. MaxBatch}

\* add_lambda_expressions: the sample is appended to the population, as
\* perturb appends a batch.
AddLambdaExpressions ==
    /\ status = "running"
    /\ sim.phase = "idle"
    /\ inserted = {}
    /\ \E sample \in Samples :
        /\ Len(expressions) + Len(sample) <= MaxPop
        /\ Take(PerturbOutcome(expressions, sample))
        /\ inserted' = inserted \cup {sample[k] : k \in 1 .. Len(sample)}
    /\ calls' = calls + 1
    /\ UNCHANGED <<cfgVars, task, collisions, twin, sim>>

InitPoll ==
    /\ experiment_soup(ZeroSeed)
    /\ expressions = <<>>
    /\ status = "running"
    /\ calls = 0
    /\ last = NoCall
    /\ inserted = {}
    /\ twin = Outcome(<<>>, "running", NoCall)
    /\ sim = Idle
    /\ task = NoTask
    /\ collisions = 0

\* A schedule without the sample after the final attempt.
poll_due_no_final(i, n, interval) == i % interval = 0

\* A sample is taken after every interval-th attempt and after the final one.
poll_due(i, n, interval) == i % interval = 0 \/ i = n

\* The probe of simulate_and_poll: the population length.
probe(pop) == [payload |-> len(pop), stop |-> FALSE]

\* The probe simulate_soup_and_produce_entropies polls with:
\* |s| s.population_entropy()
entropy_probe(pop) == [payload |-> population_entropy(pop), stop |-> FALSE]

\* The term whose presence stops the run of simulate_additive_murder.
KillerTarget == add

\* The probe of simulate_additive_murder: the count of collisions of the
\* engine and the stop flag, set when some member is isomorphic to add.
killer_probe(pop, count) ==
    [payload |-> count,
     stop |-> \E k \in 1 .. Len(pop) : is_isomorphic_to(pop[k], KillerTarget)]

\* A controller that never looks at the stop flag.
stop_ignored(sample) == FALSE

\* The stop flag of a sample ends the run.
stops(sample) == sample.stop

\* The sample taken after attempt i.
Sample(i, value) == [at |-> i, payload |-> value.payload, stop |-> value.stop]

\* The controller record after attempt i, whose react left the probe value
\* `value`: the sample is taken if one is due, and a sample with the stop
\* flag set ends the run.
Polled(i, value) ==
    IF ~poll_due(i, sim.n, sim.interval)
    THEN [sim EXCEPT !.i = i, !.history = Append(@, value)]
    ELSE [sim EXCEPT !.i = i, !.history = Append(@, value),
                     !.samples = Append(@, Sample(i, value)),
                     !.phase = IF stops(Sample(i, value)) THEN "returned" ELSE @]

\* What one iteration of simulate_and_poll leaves behind, o being the
\* outcome of its react.
PollIterationOf(o) ==
    IF o.status # "running"
    THEN [expressions |-> o.expressions, status |-> o.status, last |-> o.last,
          sim |-> [sim EXCEPT !.i = @ + 1, !.phase = o.status]]
    ELSE [expressions |-> o.expressions, status |-> "running", last |-> o.last,
          sim |-> Polled(sim.i + 1, probe(o.expressions))]

\* The same for simulate_and_poll_with_killer.
KillerIterationOf(o) ==
    IF o.status # "running"
    THEN [expressions |-> o.expressions, status |-> o.status, last |-> o.last,
          sim |-> [sim EXCEPT !.i = @ + 1, !.phase = o.status]]
    ELSE [expressions |-> o.expressions, status |-> "running", last |-> o.last,
          sim |-> Polled(sim.i + 1, killer_probe(o.expressions, collisions + 1))]

\* The same for the simulate_and_poll of simulate_soup_and_produce_entropies.
EntropiesIterationOf(o) ==
    IF o.status # "running"
    THEN [expressions |-> o.expressions, status |-> o.status, last |-> o.last,
          sim |-> [sim EXCEPT !.i = @ + 1, !.phase = o.status]]
    ELSE [expressions |-> o.expressions, status |-> "running", last |-> o.last,
          sim |-> Polled(sim.i + 1, entropy_probe(o.expressions))]

\* The controller records a simulate_and_poll* call can start with: n
\* attempts polled every interval.
Calls(op) ==
    {[Idle EXCEPT !.op = op, !.phase = "loop", !.n = n, !.interval = interval,
                  !.start_len = Len(expressions)] :
        n \in 0 .. MaxRunLength, interval \in 1 .. MaxInterval}

\* simulate_and_poll is called.
PollCall ==
    /\ status = "running"
    /\ sim.phase = "idle"
    /\ sim' \in Calls("simulate_and_poll")
    /\ UNCHANGED <<expressions, cfgVars, task, collisions, status, calls, last, inserted, twin>>

\* One attempt of simulate_and_poll, with the sample after it if one is due.
PollIteration ==
    /\ sim.op = "simulate_and_poll"
    /\ sim.phase = "loop"
    /\ sim.i < sim.n
    /\ \E o \in ReactOutcomes(expressions) : TakeIteration(PollIterationOf(o))
    /\ collisions' = collisions + 1
    /\ UNCHANGED <<cfgVars, task, calls, inserted, twin>>

\* All attempts are made: simulate_and_poll returns the samples.
PollReturn ==
    /\ sim.op = "simulate_and_poll"
    /\ sim.phase = "loop"
    /\ sim.i = sim.n
    /\ sim' = [sim EXCEPT !.phase = "returned"]
    /\ UNCHANGED <<expressions, cfgVars, task, collisions, status, calls, last, inserted, twin>>

\* simulate_and_poll_with_killer is called.
KillerCall ==
    /\ status = "running"
    /\ sim.phase = "idle"
    /\ sim' \in Calls("simulate_and_poll_with_killer")
    /\ UNCHANGED <<expressions, cfgVars, task, collisions, status, calls, last, inserted, twin>>

\* One attempt of simulate_and_poll_with_killer, with the sample after it if
\* one is due; a sample with the stop flag set ends the call.
KillerIteration ==
    /\ sim.op = "simulate_and_poll_with_killer"
    /\ sim.phase = "loop"
    /\ sim.i < sim.n
    /\ \E o \in ReactOutcomes(expressions) : TakeIteration(KillerIterationOf(o))
    /\ collisions' = collisions + 1
    /\ UNCHANGED <<cfgVars, task, calls, inserted, twin>>

\* All attempts are made without a stop: the samples are returned.
KillerReturn ==
    /\ sim.op = "simulate_and_poll_with_killer"
    /\ sim.phase = "loop"
    /\ sim.i = sim.n
    /\ sim' = [sim EXCEPT !.phase = "returned"]
    /\ UNCHANGED <<expressions, cfgVars, task, collisions, status, calls, last, inserted, twin>>

NextPoll ==
    \/ AddLambdaExpressions
    \/ PollCall \/ PollIteration \/ PollReturn
    \/ KillerCall \/ KillerIteration \/ KillerReturn

SpecPoll == InitPoll /\ [][NextPoll]_vars

\* ------------------------------------- simulate_soup_and_produce_entropies


\* Task ids explored: ids of one, two and three significant bytes.
TaskIds == {0, 1, 2, 255, 256, 257, 65536}

RECURSIVE shifted_right(_, _)
\* id >> (8 * bytes)
shifted_right(id, bytes) ==
    IF bytes = 0 THEN id ELSE shifted_right(id \div 256, bytes - 1)

\* usize::to_le_bytes: the bytes of id, least significant first.
to_le_bytes(id) == [k \in 1 .. UsizeBytes |-> shifted_right(id, k - 1) % 256]

\* seed[..bytes.len()].copy_from_slice(&bytes)
copy_from_slice(seed, bytes) ==
    [k \in 1 .. Len(seed) |-> IF k <= Len(bytes) THEN bytes[k] ELSE seed[k]]

\* The local variable seed of the task: the bytes of id in a zero seed.
derived_seed(id) == copy_from_slice(ZeroSeed, to_le_bytes(id))

\* The task with this id once it has built its engine: the seed it derived,
\* and the seed it handed to experiment_soup, ConfigSeed::new([0; 32]).
produce_entropies_task(id) ==
    [id |-> id, seed |-> derived_seed(id), engine_seed |-> ZeroSeed]

\* simulate_soup_and_produce_entropies, after experiment_soup has returned
\* the engine.
InitEntropies ==
    /\ task \in {produce_entropies_task(id) : id \in TaskIds}
    /\ experiment_soup(task.engine_seed)
    /\ expressions = <<>>
    /\ status = "running"
    /\ calls = 0
    /\ last = NoCall
    /\ inserted = {}
    /\ twin = Outcome(<<>>, "running", NoCall)
    /\ sim = Idle
    /\ collisions = 0

\* simulate_and_poll is called with the probe of the entropies.
EntropiesCall ==
    /\ status = "running"
    /\ sim.phase = "idle"
    /\ sim' \in Calls("simulate_and_poll")
    /\ UNCHANGED <<expressions, cfgVars, task, collisions, status, calls, last, inserted, twin>>

\* One attempt of that call, with the entropy sampled after it if a sample
\* is due.
EntropiesIteration ==
    /\ sim.op = "simulate_and_poll"
    /\ sim.phase = "loop"
    /\ sim.i < sim.n
    /\ \E o \in ReactOutcomes(expressions) : TakeIteration(EntropiesIterationOf(o))
    /\ collisions' = collisions + 1
    /\ UNCHANGED <<cfgVars, task, calls, inserted, twin>>

\* All attempts are made: the entropies sampled are returned.
EntropiesReturn ==
    /\ sim.op = "simulate_and_poll"
    /\ sim.phase = "loop"
    /\ sim.i = sim.n
    /\ sim' = [sim EXCEPT !.phase = "returned"]
    /\ UNCHANGED <<expressions, cfgVars, task, collisions, status, calls, last, inserted, twin>>

\* The task fills the engine, then polls its entropy with simulate_and_poll.
NextEntropies ==
    \/ AddLambdaExpressions
    \/ EntropiesCall \/ EntropiesIteration \/ EntropiesReturn

SpecEntropies == InitEntropies /\ [][NextEntropies]_vars

\* ------------------------------------------------------------ observations

Reacted == last.op = "react"
Succeeded == Reacted /\ last.result = "some"
Failed == Reacted /\ last.result = "none"
Panicked == Reacted /\ last.result = "panic"

RuleCount == Len(reaction_rules)

\* Number of occurrences of x in the sequence s
Count(s, x) == Cardinality({p \in 1 .. Len(s) : s[p] = x})
Members(s) == {s[p] : p \in 1 .. Len(s)}
SameMembers(s, t) ==
    \A x \in Members(s) \cup Members(t) : Count(s, x) = Count(t, x)

\* The indices that occur free in t, seen from outside `depth` binders
RECURSIVE FreeIndices(_, _)
FreeIndices(t, depth) ==
    IF IsVar(t) THEN (IF t[2] > depth THEN {t[2] - depth} ELSE {})
    ELSE IF IsAbs(t) THEN FreeIndices(t[2], depth + 1)
    ELSE FreeIndices(t[2], depth) \cup FreeIndices(t[3], depth)

Closed(t) == FreeIndices(t, 0) = {}

\* The positions of last.pre, counted from 1, that the draws i and j pick
RECURSIVE Positions(_)
Positions(n) == IF n = 0 THEN <<>> ELSE Append(Positions(n - 1), n)
FirstPicked(n, i) == Positions(n)[i + 1]
SecondPicked(n, i, j) == swap_remove(Positions(n), i)[j + 1]
Draws(n) == FirstDrawRange(n) \X SecondDrawRange(n)
DrawsPicking(n, a, b) ==
    {d \in Draws(n) : {FirstPicked(n, d[1]), SecondPicked(n, d[1], d[2])} = {a, b}}

\* last.pre without the members at the two positions picked, in the order
\* the two removals leave
WithoutParents == swap_remove(swap_remove(last.pre, last.i), last.j)

\* What a call hands back to its caller: for react, whether it panicked,
\* returned None or returned a ReactionResult, and the fields of the latter
Returned(rec) ==
    [op |-> rec.op, result |-> rec.result,
     left_size |-> IF rec.result = "some" THEN rec.left_size ELSE 0,
     right_size |-> IF rec.result = "some" THEN rec.right_size ELSE 0,
     collision_results |-> rec.collision_results]

\* The term that rule k makes of the parents of the last react
OutputOf(k) == reduce(app(app(reaction_rules[k], last.left), last.right), reduction_limit)[1]

\* ------------------------------------------------------------------ claims

\* C1: with maintain_constant_population_size on, after every react that
\* returns an outcome the population is as long as it was before the call,
\* whatever discard_parents and the number of rules are.
C1_SizeConservedOnSuccess ==
    (Succeeded /\ maintain_constant_population_size)
        => Len(expressions) = Len(last.pre)

\* C2: a react that returns no outcome removes the two parents for good when
\* the parents are discarded, and puts both back (same length, same members)
\* when they are kept.
C2_FailedReactParents ==
    Failed =>
        IF discard_parents
        THEN Len(expressions) = Len(last.pre) - 2
        ELSE Len(expressions) = Len(last.pre) /\ SameMembers(expressions, last.pre)

\* C3: react on a population of size 0 or 1 ends in a panic, not in the
\* "no outcome" result, and has removed no member when it panics.
C3_PanicBeforeRemoval ==
    /\ (Reacted /\ Len(last.pre) < 2) => (Panicked /\ status = "panicked")
    /\ Panicked => expressions = last.pre

\* C4: react commits all or nothing: when a rule's collision fails the
\* population is the one the removal of the two parents left, with no output
\* of any rule in it; when all succeed the commit appends one output per
\* rule, in rule order, to the population the removals left.
C4_AllOrNothing ==
    /\ Failed => expressions = WithoutParents
    /\ Succeeded =>
        /\ Len(last.buf) = RuleCount
        /\ \A k \in 1 .. RuleCount : last.buf[k] = OutputOf(k)
        /\ SubSeq(last.committed, 1, Len(last.pre) - 2 + RuleCount)
               = WithoutParents \o last.buf
        /\ (~maintain_constant_population_size => expressions = last.committed)

C4_Witness ==
    /\ Failed
    /\ RuleCount = 2
    /\ collide(reaction_rules[1], last.left, last.right).some
    /\ expressions = WithoutParents

\* C5: for a population of n >= 2 the two draws of react pick two distinct
\* positions, every unordered pair of distinct positions is picked by the
\* same number of draws (two), and the parents of the call are the members
\* at the positions picked.
C5_UniformPairs ==
    (Reacted /\ Len(last.pre) >= 2) =>
        LET n == Len(last.pre)
        IN  /\ \A d \in Draws(n) : FirstPicked(n, d[1]) # SecondPicked(n, d[1], d[2])
            /\ \A a \in 1 .. n, b \in 1 .. n :
                   a < b => Cardinality(DrawsPicking(n, a, b)) = 2
            /\ last.left = last.pre[FirstPicked(n, last.i)]
            /\ last.right = last.pre[SecondPicked(n, last.i, last.j)]
            /\ SameMembers(WithoutParents \o <<last.left, last.right>>, last.pre)

C5_Witness ==
    /\ Reacted
    /\ Len(last.pre) = 3
    /\ last.i = 0 /\ last.j = 0
    /\ last.left = last.pre[1] /\ last.right = last.pre[3]

\* C6: with maintain_constant_population_size on, a react that returns an
\* outcome removes, after the commit, as many members as there are rules,
\* whether or not the parents were put back; with the switch off it removes
\* none.
C6_RemovalByRuleCount ==
    Succeeded =>
        /\ Len(last.committed)
               = Len(last.pre) - 2 + RuleCount + (IF discard_parents THEN 0 ELSE 2)
        /\ Len(last.committed) - Len(expressions)
               = (IF maintain_constant_population_size THEN RuleCount ELSE 0)
        /\ Len(last.ks) = Len(last.committed) - Len(expressions)

C6_Witness ==
    /\ Succeeded
    /\ maintain_constant_population_size
    /\ discard_parents
    /\ RuleCount = 2
    /\ Len(expressions) = Len(last.committed) - 2

\* C7: with maintain_constant_population_size off, after a react that
\* returns an outcome the population length has changed by the number of
\* outputs added, plus 2 if the parents are kept, minus 2.
C7_LengthChangeWithoutConservation ==
    (Succeeded /\ ~maintain_constant_population_size) =>
        /\ Len(last.buf) = RuleCount
        /\ Len(expressions) - Len(last.pre)
               = Len(last.buf) + (IF discard_parents THEN 0 ELSE 2) - 2

C7_Witness ==
    /\ Succeeded
    /\ ~maintain_constant_population_size
    /\ ~discard_parents
    /\ RuleCount = 2
    /\ Len(expressions) = Len(last.pre) + 2

\* C8: two engines built from the same configuration that receive the same
\* insertions and the same react calls hold the same population and have
\* returned the same outcomes after every call.
C8_TwinsAgree ==
    /\ SameMembers(twin.expressions, expressions)
    /\ twin.status = status
    /\ Returned(twin.last) = Returned(last)

\* C9: with discard_identity on, no term that react appends as a rule output
\* is the identity, whatever the other switches are; and the collision of
\* the identity with the identity under the rule \x.\y. x y, with the
\* identity and copy action checks on, returns no outcome and adds nothing.
C9_NoIdentityOutput ==
    /\ (Succeeded /\ discard_identity) =>
           \A k \in 1 .. Len(last.buf) : last.buf[k] # identity
    /\ (/\ Reacted
        /\ reaction_rules = <<RuleApply>>
        /\ discard_identity /\ discard_copy_actions
        /\ last.left = identity /\ last.right = identity)
           => (Failed /\ expressions = WithoutParents)

C9_Witness ==
    /\ Failed
    /\ reaction_rules = <<RuleApply>>
    /\ discard_identity /\ discard_copy_actions
    /\ last.left = identity /\ last.right = identity
    /\ reduce(app(app(RuleApply, identity), identity), reduction_limit) = <<identity, 3>>
    /\ Len(expressions) = Len(last.pre) - 2

\* C10: with discard_free_variable_expressions on, no term that react
\* appends as a rule output has a free variable; and when every term handed
\* to perturb is closed, every member of the population is closed after any
\* sequence of perturb and react calls.
C10_NoFreeVariableOutput ==
    discard_free_variable_expressions =>
        /\ Succeeded => \A k \in 1 .. Len(last.buf) : Closed(last.buf[k])
        /\ (\A t \in inserted : Closed(t))
               => \A p \in 1 .. Len(expressions) : Closed(expressions[p])

C10_Witness ==
    /\ Succeeded
    /\ discard_free_variable_expressions
    /\ \A t \in inserted : Closed(t)
    /\ Len(last.buf) = 2
    /\ \E p \in 1 .. Len(expressions) : expressions[p] \in Members(last.buf)

\* The number of steps the reduction for rule k of the last react takes
StepsOf(k) == reduce(app(app(reaction_rules[k], last.left), last.right), reduction_limit)[2]

\* C11: with discard_copy_actions on, no term that react appends as a rule
\* output is isomorphic to the left or to the right parent of that react.
C11_NoCopyOutput ==
    (Succeeded /\ discard_copy_actions) =>
        \A k \in 1 .. Len(last.buf) :
            /\ last.buf[k] # last.left
            /\ last.buf[k] # last.right
            /\ last.left = last.pre[FirstPicked(Len(last.pre), last.i)]
            /\ last.right = last.pre[SecondPicked(Len(last.pre), last.i, last.j)]

C11_Witness ==
    /\ Succeeded
    /\ discard_copy_actions
    /\ RuleCount = 2
    /\ last.left # last.right
    /\ \E p \in 1 .. Len(expressions) : expressions[p] \in Members(last.buf)

\* C12: a collision whose reduction takes as many steps as reduction_limit
\* gives no result: the react returns no outcome, the population is the one
\* the removal of the parents left, and every outcome that is returned
\* reports for every rule a number of steps other than the limit (fewer,
\* when the limit is not 0, which stands for no limit).
C12_BudgetIsFailure ==
    /\ (Reacted /\ Len(last.pre) >= 2
            /\ \E k \in 1 .. RuleCount : StepsOf(k) = reduction_limit)
           => (Failed /\ expressions = WithoutParents)
    /\ Succeeded =>
           \A k \in 1 .. Len(last.collision_results) :
               /\ last.collision_results[k].reductions # reduction_limit
               /\ reduction_limit # 0 =>
                      last.collision_results[k].reductions < reduction_limit
               /\ last.collision_results[k].reductions = StepsOf(k)

\* The reduction of (\x.x x) applied to the identity ends, in normal form,
\* after exactly reduction_limit steps, and no other check would reject it.
C12_Witness ==
    /\ Failed
    /\ reaction_rules = <<RuleApply>>
    /\ ~discard_identity /\ ~discard_copy_actions
    /\ last.left = TermW /\ last.right = identity
    /\ reduce(app(app(RuleApply, TermW), identity), 0) = <<identity, reduction_limit>>
    /\ expressions = WithoutParents

\* C13: perturb appends every term supplied, unchanged and in order: the
\* population grows by the number of terms supplied, duplicates, the
\* identity and open terms are kept, and the members present before the
\* call stay with their multiplicities.
C13_PerturbAppends ==
    last.op = "perturb" =>
        /\ expressions = last.pre \o last.batch
        /\ Len(expressions) = Len(last.pre) + Len(last.batch)
        /\ \A x \in Members(last.pre) \cup Members(last.batch) :
               Count(expressions, x) = Count(last.pre, x) + Count(last.batch, x)

C13_Witness ==
    /\ last.op = "perturb"
    /\ last.pre = <<identity>>
    /\ last.batch = <<identity, TermOpen>>
    /\ Count(expressions, identity) = 2
    /\ discard_identity /\ discard_free_variable_expressions

RECURSIVE SumOver(_, _)
\* The sum of the values of a map over a set of its keys
SumOver(map, keys) ==
    IF keys = {} THEN 0
    ELSE LET key == CHOOSE k \in keys : TRUE
         IN  map[key] + SumOver(map, keys \ {key})

\* C15: the values of expression_counts sum to the population length, its
\* keys are the members of the population, and the count of every member is
\* the number of its occurrences.
C15_CountsSumToLength ==
    /\ SumOver(expression_counts(expressions), DOMAIN expression_counts(expressions))
           = Len(expressions)
    /\ DOMAIN expression_counts(expressions) = Members(expressions)
    /\ \A p \in 1 .. Len(expressions) :
           expression_counts(expressions)[expressions[p]]
               = Count(expressions, expressions[p])

\* A population left by a react with a member held twice and another once
C15_Witness ==
    /\ Reacted
    /\ Len(expressions) = 3
    /\ Cardinality(Members(expressions)) = 2
    /\ \E x \in Members(expressions) : expression_counts(expressions)[x] = 2

\* C16: population_entropy of the empty population is 0 and is computed
\* without any division; of a population that holds copies of one term
\* only it is 0; and no division it performs has a zero divisor.
C16_DegenerateEntropy ==
    /\ expressions = <<>> =>
           /\ population_entropy(expressions) = 0
           /\ entropy_run(expressions).divisors = <<>>
    /\ Cardinality(Members(expressions)) = 1 => population_entropy(expressions) = 0
    /\ \A d \in 1 .. Len(entropy_run(expressions).divisors) :
           entropy_run(expressions).divisors[d] # 0

\* Three copies of one term: one division, 3 / 3, and log10(1) = 0
C16_Witness ==
    /\ expressions = <<TermK, TermK, TermK>>
    /\ entropy_run(expressions).divisors = <<3>>
    /\ population_entropy(expressions) = 0

\* A simulate_for call has made at least one react
Simulated == sim.op = "simulate_for" /\ sim.i >= 1

\* The last react of simulate_for started with fewer than two members, or
\* returned an outcome that holds no collision result
AttemptPanics ==
    \/ Len(last.pre) < 2
    \/ last.result = "some" /\ Len(last.collision_results) = 0

\* C14 (as stated): simulate_for(n), called on a population of two or more
\* under any configuration, ends by returning after exactly n react calls.
C14_ExactlyNAttempts ==
    (sim.op = "simulate_for" /\ sim.start_len >= 2 /\ sim.phase # "loop")
        => (sim.phase = "returned" /\ sim.i = sim.n)

\* C14 (amended): simulate_for(n) makes at most n react calls, successes
\* and failures alike; it returns only after exactly n of them; it ends
\* early, by a panic, exactly when a react starts with fewer than two
\* members or returns an outcome without any collision result; and it stays
\* inside a react for ever exactly when the reduction of that react has no
\* end, which takes a reduction limit of 0.
C14_AttemptsUntilPanic ==
    sim.op = "simulate_for" =>
        /\ sim.i <= sim.n
        /\ sim.phase = "returned" => (sim.i = sim.n /\ status = "running")
        /\ sim.phase = "loop" => status = "running"
        /\ sim.phase = "panicked" <=> (Simulated /\ AttemptPanics)
        /\ sim.phase = "panicked" <=> status = "panicked"
        /\ sim.phase = "hung" <=> (Simulated /\ last.result = "hang")
        /\ sim.phase = "hung" <=> status = "hung"
        /\ sim.phase = "hung" => reduction_limit = 0

\* A population of two, one rule, parents discarded and no size
\* conservation: the first react succeeds and leaves one member, the second
\* panics.
C14_Witness ==
    /\ sim.op = "simulate_for"
    /\ sim.start_len = 2
    /\ sim.n = 3
    /\ sim.i = 2
    /\ sim.phase = "panicked"
    /\ reaction_rules = <<RuleApply>>
    /\ discard_parents /\ ~maintain_constant_population_size
    /\ Len(last.pre) = 1

\* C19: every outcome react returns inside simulate_for has one collision
\* result per rule and at least one, so that collision_results[0] exists
\* and the line is printed.
C19_FirstResultInBounds ==
    (Simulated /\ last.result = "some") =>
        /\ Len(last.collision_results) = RuleCount
        /\ Len(last.collision_results) >= 1
        /\ sim.phase # "panicked"

\* C20: the line printed for a successful react gives the step count of the
\* first rule as the reductions, the sizes of the left and right parents as
\* the two sizes, and the size of the first rule's output as the size
\* produced.
C20_LineSlots ==
    (Simulated /\ last.result = "some" /\ sim.phase # "panicked") =>
        /\ sim.line.text = "successful"
        /\ sim.line.reductions = last.collision_results[1].reductions
        /\ sim.line.sizes = <<last.left_size, last.right_size>>
        /\ sim.line.size = last.collision_results[1].size

\* n / interval rounded up
ceil_div(n, interval) == (n + interval - 1) \div interval

Min(a, b) == IF a <= b THEN a ELSE b

\* Every sample is the value of the probe on the population left by the
\* attempt after which it was taken
SamplesMatchHistory ==
    \A k \in 1 .. Len(sim.samples) :
        /\ sim.samples[k].at \in 1 .. Len(sim.history)
        /\ sim.samples[k].payload = sim.history[sim.samples[k].at].payload
        /\ sim.samples[k].stop = sim.history[sim.samples[k].at].stop

\* C17: simulate_and_poll(n, interval, probe) returns after n attempts with
\* ceil(n / interval) samples, in order: the k-th is taken after attempt
\* k * interval, the last after attempt n, and each is the value of the
\* probe on the population at that attempt count.
C17_PollSchedule ==
    sim.op = "simulate_and_poll" =>
        /\ sim.i <= sim.n
        /\ sim.phase = "returned" =>
               /\ sim.i = sim.n
               /\ Len(sim.samples) = ceil_div(sim.n, sim.interval)
        /\ \A k \in 1 .. Len(sim.samples) :
               sim.samples[k].at = Min(k * sim.interval, sim.n)
        /\ sim.phase # "panicked" =>
               Len(sim.samples) = ceil_div(sim.i, sim.interval)
                   - (IF sim.i < sim.n /\ sim.i % sim.interval # 0 THEN 1 ELSE 0)
        /\ SamplesMatchHistory
        /\ (status = "running" /\ Len(sim.samples) >= 1
                /\ sim.samples[Len(sim.samples)].at = sim.i) =>
               sim.samples[Len(sim.samples)].payload = len(expressions)

\* Three attempts polled every two: one sample after the second attempt and
\* one after the third, of different populations.
C17_Witness ==
    /\ sim.op = "simulate_and_poll"
    /\ sim.phase = "returned"
    /\ sim.n = 3 /\ sim.interval = 2
    /\ Len(sim.samples) = 2
    /\ sim.samples[1].payload # sim.samples[2].payload

\* C18: simulate_and_poll_with_killer looks at the stop flag at poll
\* boundaries only: samples are taken at boundaries, only the last sample
\* can have the flag set, a sample with the flag set ends the run with no
\* further attempt, a run that ends before n attempts ends at such a
\* sample, and there are at most ceil(n / interval) samples.
C18_KillerAtPollsOnly ==
    sim.op = "simulate_and_poll_with_killer" =>
        /\ Len(sim.samples) <= ceil_div(sim.n, sim.interval)
        /\ \A k \in 1 .. Len(sim.samples) :
               /\ sim.samples[k].at % sim.interval = 0 \/ sim.samples[k].at = sim.n
               /\ k < Len(sim.samples) => ~sim.samples[k].stop
               /\ (k = Len(sim.samples) /\ sim.samples[k].stop) =>
                      (sim.i = sim.samples[k].at /\ sim.phase = "returned")
        /\ (sim.phase = "returned" /\ sim.i < sim.n) =>
               /\ Len(sim.samples) >= 1
               /\ sim.samples[Len(sim.samples)].stop
               /\ sim.samples[Len(sim.samples)].at = sim.i
        /\ Len(sim.history) = (IF sim.phase = "panicked" THEN sim.i - 1 ELSE sim.i)
        /\ SamplesMatchHistory

\* The target is in the population after the first attempt, which is not a
\* poll boundary: the second attempt is made, the sample after it has the
\* flag set, and the third attempt is not made.
C18_Witness ==
    /\ sim.op = "simulate_and_poll_with_killer"
    /\ sim.n = 3 /\ sim.interval = 2
    /\ sim.i = 2
    /\ sim.phase = "returned"
    /\ sim.history[1].stop
    /\ Len(sim.samples) = 1
    /\ sim.samples[1].stop

\* With size conservation on, a react that returns (with or without an
\* outcome) leaves the length unchanged or lowers it by 2, and no react,
\* returning or not, raises it
ReturningReactKeepsOrLowersByTwo ==
    (Reacted /\ maintain_constant_population_size) =>
        /\ Len(expressions) <= Len(last.pre)
        /\ ~Panicked => Len(expressions) \in {Len(last.pre), Len(last.pre) - 2}

\* C21: with maintain_constant_population_size on, every react call leaves
\* the population length unchanged or lowers it by exactly 2, so that the
\* length never grows between two insertions.
C21_UnchangedOrLoweredByTwo ==
    (Reacted /\ maintain_constant_population_size) =>
        Len(expressions) \in {Len(last.pre), Len(last.pre) - 2}

\* C22: the engine of a simulate_soup_and_produce_entropies task is built
\* with the seed derived from the task id, the little-endian bytes of the id
\* at the start of a zero seed, so that the engine of a task with another id
\* is built with another seed.
C22_EngineSeedFromId ==
    task # NoTask =>
        /\ task.seed = derived_seed(task.id)
        /\ task.engine_seed = task.seed
        /\ \A other \in TaskIds \ {task.id} :
               produce_entropies_task(other).engine_seed # task.engine_seed

====
